---- MODULE Spec2Model ----
(***************************************************************************)
(* Model of package snapshotter (src/snapshotter/snapshotter.go): the      *)
(* Snapshotter's capture (Snapshot) and finalisation (Verify) against a    *)
(* golden file under testdata/.                                            *)
(*                                                                         *)
(* Strings are sequences of one-character tokens.  BadByte stands for a    *)
(* byte that is not valid UTF-8 (Go strings may hold one), ReplRune for    *)
(* U+FFFD, NL for a line feed.                                             *)
(***************************************************************************)
EXTENDS Integers, Sequences, FiniteSets, TLC

BadByte == "<0xFF>"
ReplRune == "<U+FFFD>"
NL == "<LF>"

----------------------------------------------------------------------------
(* Bounds *)
MaxSnapshots == 2

----------------------------------------------------------------------------
(* strings.Replace(s, old, new, -1) for one-character old and new *)
Replace(s, old, new) ==
    [i \in 1..Len(s) |-> IF s[i] = old THEN new ELSE s[i]]

(* Verify, lines 84-88: the golden file's path *)
goldenPath(tname, name) ==
    LET nameSuffix == IF name # <<>>
                      THEN <<"_">> \o Replace(Replace(name, "/", "-"), ":", "-")
                      ELSE <<>>
    IN  <<"testdata", "/">> \o Replace(Replace(tname, "/", "-"), ":", "-")
            \o nameSuffix \o <<".snapshots.json">>

----------------------------------------------------------------------------
(* Go values handed to Snapshot, as a tagged union:                        *)
(*   nil, bool, int, float (whole-valued, or NaN), string, slice, map      *)
(*   with string keys, chan.                                               *)
(* A number is n, or 2^53 + n when big is set (an int64 past the integers  *)
(* a float64 holds exactly).                                               *)
(* JSON documents, as syntax trees: null, bool, num, str, arr, obj, and    *)
(* "invalid" for bytes that are not JSON.                                  *)
GoNil == [k |-> "nil"]
GoBool(b) == [k |-> "bool", b |-> b]
GoInt(n) == [k |-> "int", big |-> FALSE, n |-> n]
GoBigInt(n) == [k |-> "int", big |-> TRUE, n |-> n]
GoFloat(n) == [k |-> "float64", nan |-> FALSE, big |-> FALSE, n |-> n]
GoBigFloat(n) == [k |-> "float64", nan |-> FALSE, big |-> TRUE, n |-> n]
GoNaN == [k |-> "float64", nan |-> TRUE, big |-> FALSE, n |-> 0]
GoString(s) == [k |-> "string", s |-> s]
GoSlice(e) == [k |-> "slice", nil |-> FALSE, e |-> e]
GoNilSlice == [k |-> "slice", nil |-> TRUE, e |-> <<>>]
GoMap(m) == [k |-> "map", m |-> m]
GoChan == [k |-> "chan"]

JNull == [j |-> "null"]
JBool(b) == [j |-> "bool", b |-> b]
JNum(n) == [j |-> "num", big |-> FALSE, n |-> n]
JBigNum(n) == [j |-> "num", big |-> TRUE, n |-> n]
JMap(members) == [j |-> "map", members |-> members]
JStr(s) == [j |-> "str", s |-> s]
JArr(e) == [j |-> "arr", e |-> e]
JInvalid == [j |-> "invalid"]

(* strings written a second time as JSON text, quotes included *)
toValidUTF8Quoted(s) == <<"\"">> \o Replace(s, BadByte, ReplRune) \o <<"\"">>

(* encoding/json writes strings coerced to valid UTF-8 *)
toValidUTF8(s) == Replace(s, BadByte, ReplRune)

(* the keys of a map in the order encoding/json writes them, the order of  *)
(* their bytes                                                             *)
KeyOrder == <<<<"k">>, <<ReplRune>>, <<BadByte>>>>
sortedKeys(m) == SelectSeq(KeyOrder, LAMBDA key : key \in DOMAIN m)

(* strconv.ParseFloat on the literal 2^53 + n: the nearest float64, ties   *)
(* to the even mantissa, as an offset from 2^53                            *)
nearestFloat(n) ==
    IF n % 2 = 0 THEN n ELSE IF (n - 1) % 4 = 0 THEN n - 1 ELSE n + 1

(* json.Marshal reports an error for channels and for NaN *)
RECURSIVE marshalable(_)
marshalable(v) ==
    CASE v.k = "chan" -> FALSE
      [] v.k = "float64" -> ~v.nan
      [] v.k = "slice" -> \A i \in 1..Len(v.e) : marshalable(v.e[i])
      [] v.k = "map" -> \A key \in DOMAIN v.m : marshalable(v.m[key])
      [] OTHER -> TRUE

RECURSIVE marshalValue(_)
marshalValue(v) ==
    CASE v.k = "nil" -> JNull
      [] v.k = "bool" -> JBool(v.b)
      [] v.k = "int" -> IF v.big THEN JBigNum(v.n) ELSE JNum(v.n)
      [] v.k = "float64" -> IF v.big THEN JBigNum(v.n) ELSE JNum(v.n)
      [] v.k = "string" -> JStr(toValidUTF8(v.s))
      [] v.k = "slice" -> IF v.nil THEN JNull
                          ELSE JArr([i \in 1..Len(v.e) |-> marshalValue(v.e[i])])
      [] v.k = "map" ->
            LET keys == sortedKeys(v.m)
            IN  JMap([i \in 1..Len(keys) |->
                        [key |-> toValidUTF8(keys[i]),
                         val |-> marshalValue(v.m[keys[i]])]])

(* json.Unmarshal into an interface{} *)
RECURSIVE unmarshalValue(_)
unmarshalValue(j) ==
    CASE j.j = "null" -> GoNil
      [] j.j = "bool" -> GoBool(j.b)
      [] j.j = "num" -> IF j.big THEN GoBigFloat(nearestFloat(j.n)) ELSE GoFloat(j.n)
      [] j.j = "str" -> GoString(j.s)
      [] j.j = "arr" -> GoSlice([i \in 1..Len(j.e) |-> unmarshalValue(j.e[i])])
      [] j.j = "map" ->
            \* of two members with one key the later one stays
            LET last(key) == CHOOSE i \in 1..Len(j.members) :
                                /\ j.members[i].key = key
                                /\ \A n \in (i + 1)..Len(j.members) :
                                      j.members[n].key # key
            IN  GoMap([key \in {j.members[i].key : i \in 1..Len(j.members)} |->
                        unmarshalValue(j.members[last(key)].val)])

(* jsonRoundTrip, lines 23-33 *)
jsonRoundTrip(value) ==
    IF marshalable(value)
    THEN [err |-> FALSE, v |-> unmarshalValue(marshalValue(value))]
    ELSE [err |-> TRUE, v |-> GoNil]

----------------------------------------------------------------------------
(* type snapshot, lines 35-38; Values is a Go slice of normalised values   *)
snapshot(name, values) == [Name |-> name, Values |-> values]

NilPtr == [ptr |-> "nil"]
Ptr(sn) == [ptr |-> "snapshot", Name |-> sn.Name, Values |-> sn.Values]
Deref(p) == [Name |-> p.Name, Values |-> p.Values]

JObj(name, values) == [j |-> "obj", Name |-> name, Values |-> values]

(* json.MarshalIndent(s.snapshots), line 107: every element is a non-nil   *)
(* *snapshot, written as an object with the fields Name and Values         *)
marshalSnapshots(snaps) ==
    JArr([i \in 1..Len(snaps) |->
            JObj(JStr(toValidUTF8(snaps[i].Name)), marshalValue(snaps[i].Values))])

(* json.Unmarshal(bytes, &expected) into a []*snapshot, lines 127-128 *)
recordDecodes(j) ==
    \/ j.j = "null"
    \/ /\ j.j = "obj"
       /\ j.Name.j \in {"str", "null"}
       /\ j.Values.j \in {"arr", "null"}

unmarshalRecord(j) ==
    IF j.j = "null" THEN NilPtr
    ELSE Ptr(snapshot(IF j.Name.j = "str" THEN j.Name.s ELSE <<>>,
                      IF j.Values.j = "arr"
                      THEN GoSlice([i \in 1..Len(j.Values.e) |->
                                        unmarshalValue(j.Values.e[i])])
                      ELSE GoNilSlice))

unmarshalSnapshots(doc) ==
    CASE doc.j = "null" -> [err |-> FALSE, v |-> <<>>]
      [] doc.j = "arr" ->
            IF \A i \in 1..Len(doc.e) : recordDecodes(doc.e[i])
            THEN [err |-> FALSE,
                  v |-> [i \in 1..Len(doc.e) |-> unmarshalRecord(doc.e[i])]]
            ELSE [err |-> TRUE, v |-> <<>>]
      [] OTHER -> [err |-> TRUE, v |-> <<>>]

----------------------------------------------------------------------------
(* The diff engine, lines 172-189.  pretty.Sprint renders a string quoted  *)
(* (strconv.Quote), a number as its literal, nil as nil, and a slice, nil  *)
(* or not, as a bracketed list of its rendered elements.                   *)
quoteChar(c) ==
    CASE c = BadByte -> "\\xff"
      [] c = NL -> "\\n"
      [] c = "\"" -> "\\\""
      [] OTHER -> c

strconvQuote(s) == <<"\"">> \o [i \in 1..Len(s) |-> quoteChar(s[i])] \o <<"\"">>

RECURSIVE prettyList(_, _)
RECURSIVE prettyMap(_, _, _)
RECURSIVE prettySprint(_)
prettyList(e, i) ==
    IF i > Len(e) THEN <<>>
    ELSE (IF i > 1 THEN <<",", NL, " ">> ELSE <<>>)
            \o prettySprint(e[i]) \o prettyList(e, i + 1)

prettyMap(m, keys, i) ==
    IF i > Len(keys) THEN <<>>
    ELSE (IF i > 1 THEN <<",", NL, " ">> ELSE <<>>)
            \o strconvQuote(keys[i]) \o <<":", " ">> \o prettySprint(m[keys[i]])
            \o prettyMap(m, keys, i + 1)

prettySprint(v) ==
    CASE v.k = "nil" -> <<"nil">>
      [] v.k = "bool" -> <<IF v.b THEN "true" ELSE "false">>
      [] v.k = "int" ->
            IF v.big THEN <<"2^53+", ToString(v.n)>> ELSE <<ToString(v.n)>>
      [] v.k = "chan" -> <<"(chan int)(0xc000010000)">>
      [] v.k = "float64" ->
            IF v.nan THEN <<"NaN">>
            ELSE IF v.big THEN <<"2^53+", ToString(v.n)>> ELSE <<ToString(v.n)>>
      [] v.k = "map" -> <<"{">> \o prettyMap(v.m, sortedKeys(v.m), 1) \o <<"}">>
      [] v.k = "string" -> strconvQuote(v.s)
      [] v.k = "slice" -> <<"[">> \o prettyList(v.e, 1) \o <<"]">>

(* coerceToString, lines 172-177 *)
coerceToString(i) ==
    IF i.k = "string" THEN i.s ELSE prettySprint(i)

(* difflib.SplitLines: split after every line feed, then end the last      *)
(* piece with a line feed                                                  *)
RECURSIVE splitAfter(_)
splitAfter(s) ==
    IF \A i \in 1..Len(s) : s[i] # NL THEN <<s>>
    ELSE LET i == CHOOSE n \in 1..Len(s) :
                    s[n] = NL /\ \A m \in 1..(n - 1) : s[m] # NL
         IN  <<SubSeq(s, 1, i)>> \o splitAfter(SubSeq(s, i + 1, Len(s)))

SplitLines(s) ==
    LET l == splitAfter(s)
    IN  [i \in 1..Len(l) |-> IF i = Len(l) THEN l[i] \o <<NL>> ELSE l[i]]

RECURSIVE diffLines(_, _)
diffLines(mark, lines) ==
    IF lines = <<>> THEN <<>>
    ELSE <<mark>> \o Head(lines) \o diffLines(mark, Tail(lines))

(* diffString, lines 179-189: the empty string when the two renderings     *)
(* have the same lines; otherwise the unified diff, kept here as the       *)
(* header followed by the lines of each side                               *)
diffString(a, b) ==
    LET A == SplitLines(coerceToString(a))
        B == SplitLines(coerceToString(b))
    IN  IF A = B THEN <<>>
        ELSE <<"--- expected", NL, "+++ received", NL>>
                \o diffLines("-", A) \o diffLines("+", B)

(* a []string as a value the diff engine renders *)
GoStrings(names) == GoSlice([i \in 1..Len(names) |-> GoString(names[i])])

----------------------------------------------------------------------------
(* The golden file and the storage operations Verify performs on it *)
Absent == [kind |-> "absent", doc |-> JNull]
File(doc) == [kind |-> "file", doc |-> doc]

(* what a call to Verify can meet in storage: nothing going wrong, or one  *)
(* of its operations failing (a failing WriteFile either leaves the file   *)
(* as it was or leaves it cut short)                                       *)
IOFailures == {"none", "remove", "mkdir", "writeOpen", "writeShort", "read"}

(* messages handed to t.Errorf; entry is the index of the captured entry a *)
(* "differs" message is about, 0 for the other messages                    *)
Msg(m, name, text) == [m |-> m, name |-> name, text |-> text, entry |-> 0]
Differs(name, text, i) == [Msg("differs", name, text) EXCEPT !.entry = i]
Hint == Msg("rewriteHint", <<>>, <<>>)

Outcome(errs, file, dir, ops, evald, panic) ==
    [errs |-> errs, file |-> file, dir |-> dir, ops |-> ops,
     evald |-> evald, panic |-> panic]

(* os.Stat(name) followed by os.IsNotExist(err) *)
statNotExist(file) == file.kind = "absent"

(* the failures a call can meet: those of the operations it performs on a  *)
(* file that is there (a missing file fails to be read without more)       *)
mayFail(io, rw, snaps, file) ==
    CASE io = "none" -> TRUE
      [] io = "remove" -> rw /\ Len(snaps) = 0 /\ file.kind = "file"
      [] io \in {"mkdir", "writeOpen", "writeShort"} -> rw /\ Len(snaps) > 0
      [] io = "read" -> ~rw /\ file.kind = "file"

(* rewriteEmpty returning without removing the file *)
rewriteEmptyKeepsFile(file, dir, io) ==
    Outcome(<<>>, file, dir, <<"stat">>, <<>>, FALSE)

(* Verify, lines 91-102: rewriting with nothing captured removes the file *)
rewriteEmpty(file, dir, io) ==
    IF statNotExist(file)
    THEN Outcome(<<>>, file, dir, <<"stat">>, <<>>, FALSE)
    ELSE IF io = "remove"
         THEN Outcome(<<Msg("removeFailed", <<>>, <<>>)>>, file, dir,
                      <<"stat", "remove">>, <<>>, FALSE)
         ELSE Outcome(<<>>, Absent, dir, <<"stat", "remove">>, <<>>, FALSE)

(* rewriting that reports a directory failure and writes all the same *)
rewriteSaveNoReturn(snaps, file, dir, io) ==
    IF io = "mkdir"
    THEN Outcome(<<Msg("mkdirFailed", <<>>, <<>>)>>, File(marshalSnapshots(snaps)),
                 dir, <<"mkdir", "write">>, <<>>, FALSE)
    ELSE Outcome(IF io \in {"writeOpen", "writeShort"}
                 THEN <<Msg("writeFailed", <<>>, <<>>)>> ELSE <<>>,
                 File(marshalSnapshots(snaps)), TRUE,
                 <<"mkdir", "write">>, <<>>, FALSE)

(* Verify, lines 103-115: rewriting writes the captured entries *)
rewriteSave(snaps, file, dir, io) ==
    IF io = "mkdir"
    THEN Outcome(<<Msg("mkdirFailed", <<>>, <<>>)>>, file, dir,
                 <<"mkdir">>, <<>>, FALSE)
    ELSE IF \E i \in 1..Len(snaps) : ~marshalable(snaps[i].Values)
         THEN Outcome(<<Msg("marshalFailed", <<>>, <<>>)>>, file, TRUE,
                      <<"mkdir">>, <<>>, FALSE)
         ELSE IF io \in {"writeOpen", "writeShort"}
              THEN Outcome(<<Msg("writeFailed", <<>>, <<>>)>>,
                           IF io = "writeShort" THEN File(JInvalid) ELSE file,
                           TRUE, <<"mkdir", "write">>, <<>>, FALSE)
              ELSE Outcome(<<>>, File(marshalSnapshots(snaps)), TRUE,
                           <<"mkdir", "write">>, <<>>, FALSE)

(* Verify, lines 89-115: the rewrite branch *)
verifyRewrite(snaps, file, dir, io) ==
    IF Len(snaps) = 0
    THEN rewriteEmpty(file, dir, io)
    ELSE rewriteSave(snaps, file, dir, io)

(* line 118 without its test of the captured entries *)
nothingToCompareNoFile(snaps, file) == statNotExist(file)

(* Verify, line 118: nothing captured and no file, nothing to compare *)
nothingToCompare(snaps, file) == statNotExist(file) /\ Len(snaps) = 0

(* the name sequences compared by their lengths only *)
namesDiffByLength(expected, actual) ==
    IF Len(expected) = Len(actual) THEN <<>>
    ELSE <<"--- expected", NL, "+++ received", NL>>

(* Verify, lines 133-143: the diff of the two name sequences *)
namesDiff(expected, actual) ==
    LET actualNames == [i \in 1..Len(actual) |-> actual[i].Name]
        expectedNames == [i \in 1..Len(expected) |-> expected[i].Name]
    IN  diffString(GoStrings(expectedNames), GoStrings(actualNames))

(* the loop without the return of line 158: after the string diff of an   *)
(* entry it goes on to the diff of the entry's value lists                 *)
RECURSIVE compareValuesNoReturn(_, _, _)
compareValuesNoReturn(expected, actual, i) ==
    IF i > Len(actual) THEN [errs |-> <<>>, evald |-> <<>>, panic |-> FALSE]
    ELSE IF i > Len(expected) \/ expected[i] = NilPtr
    THEN [errs |-> <<>>, evald |-> <<>>, panic |-> TRUE]
    ELSE LET expectedValue == expected[i].Values
             actualValue == actual[i].Values
             bothStrings == /\ Len(expectedValue.e) = 1
                            /\ Len(actualValue.e) = 1
                            /\ expectedValue.e[1].k = "string"
                            /\ actualValue.e[1].k = "string"
             sdiff == diffString(expectedValue.e[1], actualValue.e[1])
             vdiff == diffString(expectedValue, actualValue)
             rest == compareValuesNoReturn(expected, actual, i + 1)
         IN  [errs |-> (IF bothStrings /\ sdiff # <<>>
                        THEN <<Differs(actual[i].Name, sdiff, i), Hint>>
                        ELSE <<>>)
                       \o (IF vdiff # <<>>
                           THEN <<Differs(actual[i].Name, vdiff, i), Hint>>
                           ELSE <<>>)
                       \o rest.errs,
              evald |-> <<i>> \o rest.evald,
              panic |-> rest.panic]

(* Verify, lines 148-168: the loop over the captured entries, from entry i *)
RECURSIVE compareValues(_, _, _)
compareValues(expected, actual, i) ==
    IF i > Len(actual) THEN [errs |-> <<>>, evald |-> <<>>, panic |-> FALSE]
    ELSE IF i > Len(expected) \/ expected[i] = NilPtr
    THEN [errs |-> <<>>, evald |-> <<>>, panic |-> TRUE]
    ELSE LET expectedValue == expected[i].Values
             actualValue == actual[i].Values
             bothStrings == /\ Len(expectedValue.e) = 1
                            /\ Len(actualValue.e) = 1
                            /\ expectedValue.e[1].k = "string"
                            /\ actualValue.e[1].k = "string"
             sdiff == diffString(expectedValue.e[1], actualValue.e[1])
             vdiff == diffString(expectedValue, actualValue)
             rest == compareValues(expected, actual, i + 1)
         IN  IF bothStrings /\ sdiff # <<>>
             THEN [errs |-> <<Differs(actual[i].Name, sdiff, i), Hint>>,
                   evald |-> <<i>>, panic |-> FALSE]
             ELSE [errs |-> (IF vdiff # <<>>
                             THEN <<Differs(actual[i].Name, vdiff, i), Hint>>
                             ELSE <<>>) \o rest.errs,
                   evald |-> <<i>> \o rest.evald,
                   panic |-> rest.panic]

(* a compare branch that creates the golden file it does not find *)
verifyCompareAutoCreate(snaps, file, dir, io) ==
    IF nothingToCompare(snaps, file)
    THEN Outcome(<<>>, file, dir, <<"stat">>, <<>>, FALSE)
    ELSE IF file.kind = "absent"
    THEN Outcome(<<>>, File(marshalSnapshots(snaps)), TRUE,
                 <<"stat", "read", "mkdir", "write">>, <<>>, FALSE)
    ELSE IF io = "read"
    THEN Outcome(<<Msg("readFailed", <<>>, <<>>)>>, file, dir,
                 <<"stat", "read">>, <<>>, FALSE)
    ELSE LET dec == unmarshalSnapshots(file.doc)
             expected == dec.v
             ndiff == namesDiff(expected, snaps)
             loop == compareValues(expected, snaps, 1)
         IN  IF dec.err
             THEN Outcome(<<Msg("unmarshalFailed", <<>>, <<>>)>>, file, dir,
                          <<"stat", "read">>, <<>>, FALSE)
             ELSE IF \E i \in 1..Len(expected) : expected[i] = NilPtr
             THEN Outcome(<<>>, file, dir, <<"stat", "read">>, <<>>, TRUE)
             ELSE IF ndiff # <<>>
             THEN Outcome(<<Msg("namesDiffer", <<>>, ndiff)>>, file, dir,
                          <<"stat", "read">>, <<>>, FALSE)
             ELSE Outcome(loop.errs, file, dir, <<"stat", "read">>,
                          loop.evald, loop.panic)

(* Verify, lines 116-168: the compare branch *)
verifyCompare(snaps, file, dir, io) ==
    IF nothingToCompare(snaps, file)
    THEN Outcome(<<>>, file, dir, <<"stat">>, <<>>, FALSE)
    ELSE IF io = "read" \/ file.kind = "absent"
    THEN Outcome(<<Msg("readFailed", <<>>, <<>>)>>, file, dir,
                 <<"stat", "read">>, <<>>, FALSE)
    ELSE LET dec == unmarshalSnapshots(file.doc)
             expected == dec.v
             actual == snaps
             ndiff == namesDiff(expected, actual)
             loop == compareValues(expected, actual, 1)
         IN  IF dec.err
             THEN Outcome(<<Msg("unmarshalFailed", <<>>, <<>>)>>, file, dir,
                          <<"stat", "read">>, <<>>, FALSE)
             ELSE IF \E i \in 1..Len(expected) : expected[i] = NilPtr
             THEN Outcome(<<>>, file, dir, <<"stat", "read">>, <<>>, TRUE)
             ELSE IF ndiff # <<>>
             THEN Outcome(<<Msg("namesDiffer", <<>>, ndiff)>>, file, dir,
                          <<"stat", "read">>, <<>>, FALSE)
             ELSE Outcome(loop.errs, file, dir, <<"stat", "read">>,
                          loop.evald, loop.panic)

----------------------------------------------------------------------------
(* Inputs: one test identifier, the discriminators handed to NewNamed,     *)
(* the Snapshot calls a test makes and the golden files it may start from  *)
Inst == {1, 2}

TestName == <<"T", "/", "s">>

MainName == <<"n", "/", "1">>
PathNames == {<<>>, <<"n">>, <<"n", "/", "1">>, <<"n", ":", "1">>,
              <<"n", "-", "1">>, <<"n", "1">>}

Paths == {goldenPath(TestName, d) : d \in PathNames}

NameA == <<"a">>
NameB == <<"b">>
NameBad == <<BadByte>>

Calls ==
    { [name |-> NameA, values |-> <<GoString(<<"x">>)>>],
      [name |-> NameA, values |-> <<GoString(<<BadByte>>)>>],
      [name |-> NameA, values |-> <<GoChan>>],
      [name |-> NameB, values |-> <<GoInt(1)>>],
      [name |-> NameB, values |-> <<GoFloat(1)>>],
      [name |-> NameB, values |-> <<GoInt(2), GoString(<<"x">>)>>],
      [name |-> NameB, values |-> <<GoInt(1), GoNaN>>],
      [name |-> NameBad, values |-> <<>>] }

InitFiles ==
    { Absent,
      File(JInvalid),
      File(JNum(1)),
      File(JNull),
      File(JArr(<<>>)),
      File(JArr(<<JNull>>)),
      File(JArr(<<JObj(JStr(NameA), JArr(<<JStr(<<"x">>)>>)), JNull>>)),
      File(JArr(<<JObj(JStr(NameA), JArr(<<>>))>>)),
      File(JArr(<<JObj(JNull, JNull)>>)) }

----------------------------------------------------------------------------
VARIABLES
    rewrite,    \* the -rewriteSnapshots flag of the running test process
    testdata,   \* whether the directory testdata exists
    files,      \* the golden file at each path
    s,          \* the Snapshotter instances
    reported,   \* per instance, the t.Errorf messages of its latest call
    crashed,    \* whether the test process died of a panic
    call,       \* the latest call and what it started from
    prov,       \* per path, the rewrite that produced the file, if one did
    derived,    \* per instance, the path its latest Verify derived
    vpc,        \* per instance, where a Verify taken step by step stands
    backing     \* a slice of the test, and the entries whose values are it

vars ==
    <<rewrite, testdata, files, s, reported, crashed, call, prov, derived, vpc,
      backing>>

NoSnapshotter == [alloc |-> FALSE, t |-> <<>>, name |-> <<>>, snapshots |-> <<>>]
NoOutcome == Outcome(<<>>, Absent, FALSE, <<>>, <<>>, FALSE)
NoProv == [by |-> "other", t |-> <<>>, name |-> <<>>, snapshots |-> <<>>]
NoBacking == [vals |-> <<>>, refs |-> {}]
NoSteps == [pc |-> "idle", start |-> Absent, touched |-> {}]
NoCall == [op |-> "none", i |-> 0, io |-> "none", name |-> <<>>, values |-> <<>>,
           before |-> <<>>, path |-> <<>>, fileBefore |-> Absent,
           dirBefore |-> FALSE, provBefore |-> NoProv, afterFailure |-> FALSE,
           out |-> NoOutcome]

MainPath == goldenPath(TestName, MainName)

Init ==
    /\ rewrite \in BOOLEAN
    /\ \E f \in InitFiles :
          /\ files = [p \in Paths |-> IF p = MainPath THEN f ELSE Absent]
          /\ testdata \in (IF f = Absent THEN BOOLEAN ELSE {TRUE})
    /\ s = [i \in Inst |-> NoSnapshotter]
    /\ reported = [i \in Inst |-> <<>>]
    /\ crashed = FALSE
    /\ call = NoCall
    /\ prov = [p \in Paths |-> NoProv]
    /\ derived = [i \in Inst |-> <<>>]
    /\ vpc = [i \in Inst |-> NoSteps]
    /\ backing = NoBacking

(* a new run of the test binary: the flag is read, no Snapshotter exists *)
Restart(rw) ==
    /\ rewrite' = rw
    /\ s' = [i \in Inst |-> NoSnapshotter]
    /\ reported' = [i \in Inst |-> <<>>]
    /\ crashed' = FALSE
    /\ call' = NoCall
    /\ derived' = [i \in Inst |-> <<>>]
    /\ UNCHANGED <<testdata, files, prov, vpc, backing>>

(* NewNamed, lines 57-59 *)
NewNamed(i, t, name) ==
    /\ ~crashed
    /\ s' = [s EXCEPT ![i] = [alloc |-> TRUE, t |-> t, name |-> name,
                              snapshots |-> <<>>]]
    /\ reported' = [reported EXCEPT ![i] = <<>>]
    /\ call' = [NoCall EXCEPT !.op = "New", !.i = i]
    /\ derived' = [derived EXCEPT ![i] = <<>>]
    /\ UNCHANGED <<rewrite, testdata, files, crashed, prov, vpc, backing>>

(* New, lines 53-55: name is left empty *)
New(i, t) == NewNamed(i, t, <<>>)

(* Snapshot, lines 65-72: the index of the first value that does not       *)
(* round-trip, or 0                                                        *)
firstFailing(values) ==
    IF \A n \in 1..Len(values) : ~jsonRoundTrip(values[n]).err THEN 0
    ELSE CHOOSE n \in 1..Len(values) :
            /\ jsonRoundTrip(values[n]).err
            /\ \A m \in 1..(n - 1) : ~jsonRoundTrip(values[m]).err

(* the variadic values, each replaced by its round trip; no values at all  *)
(* is a nil slice                                                          *)
roundtrippedValues(values) ==
    IF Len(values) = 0 THEN GoNilSlice
    ELSE GoSlice([n \in 1..Len(values) |-> jsonRoundTrip(values[n]).v])

(* Snapshot keeping one entry per name: a name already captured has its   *)
(* entry replaced                                                          *)
captureReplace(snaps, name, values) ==
    LET bad == firstFailing(values)
        new == snapshot(name, roundtrippedValues(values))
    IN  IF bad # 0
        THEN [errs |-> <<Msg("roundtripFailed", name, <<>>)>>,
              snapshots |-> snaps,
              evald |-> [n \in 1..bad |-> n]]
        ELSE [errs |-> <<>>,
              snapshots |->
                  IF \E n \in 1..Len(snaps) : snaps[n].Name = name
                  THEN [n \in 1..Len(snaps) |->
                           IF snaps[n].Name = name THEN new ELSE snaps[n]]
                  ELSE Append(snaps, new),
              evald |-> [n \in 1..Len(values) |-> n]]

(* Snapshot going on after a failed round trip instead of returning *)
captureNoReturn(snaps, name, values) ==
    [errs |-> IF firstFailing(values) # 0
              THEN <<Msg("roundtripFailed", name, <<>>)>> ELSE <<>>,
     snapshots |-> Append(snaps, snapshot(name, roundtrippedValues(values))),
     evald |-> [n \in 1..Len(values) |-> n]]

(* Snapshot, lines 64-78, on the captured entries: what is reported, the   *)
(* entries afterwards and the values that were round-tripped               *)
capture(snaps, name, values) ==
    LET bad == firstFailing(values)
    IN  IF bad # 0
        THEN [errs |-> <<Msg("roundtripFailed", name, <<>>)>>,
              snapshots |-> snaps,
              evald |-> [n \in 1..bad |-> n]]
        ELSE [errs |-> <<>>,
              snapshots |-> Append(snaps, snapshot(name, roundtrippedValues(values))),
              evald |-> [n \in 1..Len(values) |-> n]]

Snapshot(i, name, values) ==
    /\ ~crashed
    /\ s[i].alloc
    /\ Len(s[i].snapshots) < MaxSnapshots
    /\ \E c \in {capture(s[i].snapshots, name, values)} :
           /\ s' = [s EXCEPT ![i].snapshots = c.snapshots]
           /\ reported' = [reported EXCEPT ![i] = c.errs]
           /\ call' = [NoCall EXCEPT !.op = "Snapshot", !.i = i, !.name = name,
                          !.values = values, !.before = s[i].snapshots,
                          !.afterFailure = (/\ call.op = "Snapshot"
                                            /\ call.i = i
                                            /\ call.out.errs # <<>>),
                          !.out = Outcome(c.errs, Absent, FALSE, <<>>, c.evald, FALSE)]
    /\ UNCHANGED <<rewrite, testdata, files, crashed, prov, derived, vpc, backing>>

(* Verify, lines 82-170 *)
Verify(i, io) ==
    /\ ~crashed
    /\ s[i].alloc
    /\ \E name \in {goldenPath(s[i].t, s[i].name)} :
       \E out \in {IF rewrite
                   THEN verifyRewrite(s[i].snapshots, files[name], testdata, io)
                   ELSE verifyCompare(s[i].snapshots, files[name], testdata, io)} :
           /\ mayFail(io, rewrite, s[i].snapshots, files[name])
           /\ files' = [files EXCEPT ![name] = out.file]
           /\ testdata' = out.dir
           /\ reported' = [reported EXCEPT ![i] = out.errs]
           /\ crashed' = out.panic
           /\ derived' = [derived EXCEPT ![i] = name]
           /\ call' = [NoCall EXCEPT !.op = "Verify", !.i = i, !.io = io,
                          !.before = s[i].snapshots, !.path = name,
                          !.fileBefore = files[name], !.dirBefore = testdata,
                          !.provBefore = prov[name], !.out = out]
           /\ prov' = [prov EXCEPT ![name] =
                          IF rewrite /\ out.errs = <<>>
                          THEN [by |-> "rewrite", t |-> s[i].t, name |-> s[i].name,
                                snapshots |-> s[i].snapshots]
                          ELSE IF out.file = files[name] THEN @ ELSE NoProv]
    /\ UNCHANGED <<rewrite, s, vpc, backing>>

Next ==
    \/ \E rw \in BOOLEAN : Restart(rw)
    \/ NewNamed(1, TestName, MainName)
    \/ \E c \in Calls : Snapshot(1, c.name, c.values)
    \/ \E io \in IOFailures : Verify(1, io)

Spec == Init /\ [][Next]_vars

(* Two Snapshotters of one test, constructed with any discriminators, each *)
(* verified with nothing captured and no golden file                       *)
InitPaths ==
    /\ rewrite \in BOOLEAN
    /\ files = [p \in Paths |-> Absent]
    /\ testdata \in BOOLEAN
    /\ s = [i \in Inst |-> NoSnapshotter]
    /\ reported = [i \in Inst |-> <<>>]
    /\ crashed = FALSE
    /\ call = NoCall
    /\ prov = [p \in Paths |-> NoProv]
    /\ derived = [i \in Inst |-> <<>>]
    /\ vpc = [i \in Inst |-> NoSteps]
    /\ backing = NoBacking

NextPaths ==
    \/ \E i \in Inst : New(i, TestName)
    \/ \E i \in Inst : \E d \in PathNames : NewNamed(i, TestName, d)
    \/ \E i \in Inst : Verify(i, "none")

SpecPaths == InitPaths /\ [][NextPaths]_vars

(* Compare runs on entries that hold one string, of one or several lines,  *)
(* or one number, against golden files of one or two such records          *)
GoldenStrings == {<<>>, <<"x">>, <<"x", NL>>, <<"x", NL, "y">>}

StringCalls ==
    {[name |-> NameA, values |-> <<GoString(str)>>] : str \in GoldenStrings}
    \cup {[name |-> NameA, values |-> <<GoString(<<"x", BadByte>>)>>],
          [name |-> NameA, values |-> <<GoInt(1)>>]}

StringRecords ==
    {JObj(JStr(NameA), JArr(<<JStr(str)>>)) : str \in GoldenStrings}
    \cup {JObj(JStr(NameA), JArr(<<JNum(2)>>))}

StringFiles ==
    {File(JArr(recs)) : recs \in UNION {[1..n -> StringRecords] : n \in 1..2}}

InitStrings ==
    /\ rewrite = FALSE
    /\ \E f \in StringFiles :
          files = [p \in Paths |-> IF p = MainPath THEN f ELSE Absent]
    /\ testdata = TRUE
    /\ s = [i \in Inst |-> NoSnapshotter]
    /\ reported = [i \in Inst |-> <<>>]
    /\ crashed = FALSE
    /\ call = NoCall
    /\ prov = [p \in Paths |-> NoProv]
    /\ derived = [i \in Inst |-> <<>>]
    /\ vpc = [i \in Inst |-> NoSteps]
    /\ backing = NoBacking

NextStrings ==
    \/ NewNamed(1, TestName, MainName)
    \/ \E c \in StringCalls : Snapshot(1, c.name, c.values)
    \/ Verify(1, "none")

SpecStrings == InitStrings /\ [][NextStrings]_vars

(* The normalizer on values of every kind: values handed to Snapshot, and  *)
(* the values of a captured entry handed to Snapshot again                 *)
NormInputs ==
    { GoNil, GoBool(TRUE), GoInt(1), GoFloat(1),
      GoBigInt(0), GoBigInt(1), GoBigInt(2), GoBigInt(3),
      GoString(<<"x">>), GoString(<<"x", BadByte>>),
      GoNilSlice, GoSlice(<<>>),
      GoSlice(<<GoInt(1), GoString(<<BadByte>>), GoNilSlice>>),
      GoMap((<<"k">> :> GoBigInt(3)) @@ (<<BadByte>> :> GoInt(1))
                @@ (<<ReplRune>> :> GoInt(2))),
      GoMap(<<"k">> :> GoSlice(<<GoMap(<<BadByte>> :> GoNil)>>)),
      GoNaN, GoChan, GoSlice(<<GoInt(1), GoChan>>) }

InitNorm ==
    /\ rewrite \in BOOLEAN
    /\ files = [p \in Paths |-> Absent]
    /\ testdata = FALSE
    /\ s = [i \in Inst |-> NoSnapshotter]
    /\ reported = [i \in Inst |-> <<>>]
    /\ crashed = FALSE
    /\ call = NoCall
    /\ prov = [p \in Paths |-> NoProv]
    /\ derived = [i \in Inst |-> <<>>]
    /\ vpc = [i \in Inst |-> NoSteps]
    /\ backing = NoBacking

NextNorm ==
    \/ New(1, TestName)
    \/ \E v \in NormInputs : Snapshot(1, NameA, <<v>>)
    \/ \E n \in 1..Len(s[1].snapshots) :
          Snapshot(1, NameA, s[1].snapshots[n].Values.e)

SpecNorm == InitNorm /\ [][NextNorm]_vars

----------------------------------------------------------------------------
(* Verify taken one storage operation at a time, for two Snapshotters of   *)
(* one test whose calls interleave.  No operation fails here.              *)

(* a removal that takes the whole directory with it *)
removeAll(fs, path) == [p \in DOMAIN fs |-> Absent]

(* os.Remove(name), line 97 *)
removeFile(fs, path) == [fs EXCEPT ![path] = Absent]

(* ioutil.WriteFile(name, bytes, 0644), line 112 *)
writeFile(fs, path, doc) == [fs EXCEPT ![path] = File(doc)]

ConcNames == {<<>>, <<"n", "/", "1">>, <<"n", ":", "1">>}
ConcCalls ==
    { [name |-> NameA, values |-> <<GoString(<<"x">>)>>],
      [name |-> NameB, values |-> <<GoInt(1)>>] }
ConcFiles == {Absent, File(JArr(<<JObj(JStr(NameA), JArr(<<JStr(<<"x">>)>>))>>))}

InitConc ==
    /\ rewrite \in BOOLEAN
    /\ \E f \in ConcFiles :
          /\ files = [p \in Paths |-> f]
          /\ testdata = (f # Absent)
    /\ s = [i \in Inst |-> NoSnapshotter]
    /\ reported = [i \in Inst |-> <<>>]
    /\ crashed = FALSE
    /\ call = NoCall
    /\ prov = [p \in Paths |-> NoProv]
    /\ derived = [i \in Inst |-> <<>>]
    /\ vpc = [i \in Inst |-> NoSteps]
    /\ backing = NoBacking

(* each test constructs its Snapshotter once *)
ConcNew(i, name) ==
    /\ ~s[i].alloc
    /\ NewNamed(i, TestName, name)

(* Snapshot is called before Verify, by the goroutine that calls Verify *)
ConcSnapshot(i, name, values) ==
    /\ vpc[i].pc = "idle"
    /\ Snapshot(i, name, values)

StepFrame == UNCHANGED <<rewrite, s, call, prov, backing>>

(* Verify, lines 82-91 and 116: the path, then the branch *)
VerifyBegin(i) ==
    /\ ~crashed
    /\ s[i].alloc
    /\ vpc[i].pc = "idle"
    /\ \E name \in {goldenPath(s[i].t, s[i].name)} :
          /\ derived' = [derived EXCEPT ![i] = name]
          /\ vpc' = [vpc EXCEPT ![i] =
                        [pc |-> IF rewrite /\ Len(s[i].snapshots) > 0
                                THEN "mkdir" ELSE "stat",
                         start |-> files[name], touched |-> {}]]
    /\ reported' = [reported EXCEPT ![i] = <<>>]
    /\ UNCHANGED <<testdata, files, crashed>>
    /\ StepFrame

(* os.Stat(name), lines 92 and 118 *)
VerifyStat(i) ==
    /\ ~crashed
    /\ vpc[i].pc = "stat"
    /\ vpc' = [vpc EXCEPT
                  ![i].pc = IF rewrite
                            THEN IF statNotExist(files[derived[i]])
                                 THEN "done" ELSE "remove"
                            ELSE IF nothingToCompare(s[i].snapshots, files[derived[i]])
                                 THEN "done" ELSE "read",
                  ![i].touched = @ \cup {derived[i]}]
    /\ UNCHANGED <<testdata, files, reported, crashed, derived>>
    /\ StepFrame

(* os.Remove(name), lines 97-101 *)
VerifyRemove(i) ==
    /\ ~crashed
    /\ vpc[i].pc = "remove"
    /\ files' = removeFile(files, derived[i])
    /\ reported' = [reported EXCEPT ![i] =
                       IF files[derived[i]] = Absent
                       THEN <<Msg("removeFailed", <<>>, <<>>)>> ELSE <<>>]
    /\ vpc' = [vpc EXCEPT ![i].pc = "done", ![i].touched = @ \cup {derived[i]}]
    /\ UNCHANGED <<testdata, crashed, derived>>
    /\ StepFrame

(* os.MkdirAll("testdata", 0755), line 103 *)
VerifyMkdir(i) ==
    /\ ~crashed
    /\ vpc[i].pc = "mkdir"
    /\ testdata' = TRUE
    /\ vpc' = [vpc EXCEPT ![i].pc = "write"]
    /\ UNCHANGED <<files, reported, crashed, derived>>
    /\ StepFrame

(* json.MarshalIndent and ioutil.WriteFile, lines 107-115 *)
VerifyWrite(i) ==
    /\ ~crashed
    /\ vpc[i].pc = "write"
    /\ files' = writeFile(files, derived[i], marshalSnapshots(s[i].snapshots))
    /\ vpc' = [vpc EXCEPT ![i].pc = "done", ![i].touched = @ \cup {derived[i]}]
    /\ UNCHANGED <<testdata, reported, crashed, derived>>
    /\ StepFrame

(* ioutil.ReadFile(name) and the comparison of what was read, lines 122-168 *)
VerifyRead(i) ==
    /\ ~crashed
    /\ vpc[i].pc = "read"
    /\ \E out \in {IF files[derived[i]] = Absent
                   THEN Outcome(<<Msg("readFailed", <<>>, <<>>)>>, Absent, testdata,
                                <<"stat", "read">>, <<>>, FALSE)
                   ELSE verifyCompare(s[i].snapshots, files[derived[i]],
                                      testdata, "none")} :
          /\ reported' = [reported EXCEPT ![i] = out.errs]
          /\ crashed' = out.panic
    /\ vpc' = [vpc EXCEPT ![i].pc = "done", ![i].touched = @ \cup {derived[i]}]
    /\ UNCHANGED <<testdata, files, derived>>
    /\ StepFrame

NextConc ==
    \E i \in Inst :
        \/ \E d \in ConcNames : ConcNew(i, d)
        \/ \E c \in ConcCalls : ConcSnapshot(i, c.name, c.values)
        \/ VerifyBegin(i)
        \/ VerifyStat(i)
        \/ VerifyRemove(i)
        \/ VerifyMkdir(i)
        \/ VerifyWrite(i)
        \/ VerifyRead(i)

SpecConc == InitConc /\ [][NextConc]_vars

----------------------------------------------------------------------------
(* A test that keeps a slice and hands it to Snapshot as the variadic      *)
(* values (vals...).  Snapshot writes each round-tripped value into the    *)
(* slice it was handed (line 71) and stores that slice in the entry (line  *)
(* 76), so the entry and the test's slice are one array: backing.vals is   *)
(* the array, backing.refs the entries that are it, and a write to the     *)
(* array is a write to each of them.                                       *)

(* the entries with the array's values, where they are the array *)
writeThrough(snaps, i, refs, vals) ==
    [n \in 1..Len(snaps) |->
        IF <<i, n>> \in refs THEN [snaps[n] EXCEPT !.Values = GoSlice(vals)]
        ELSE snaps[n]]

(* Snapshot, lines 65-72, on the slice handed to it: a value is replaced   *)
(* once its round trip succeeded, up to the first that fails               *)
roundtrippedInPlace(values) ==
    LET bad == firstFailing(values)
    IN  [n \in 1..Len(values) |->
            IF bad = 0 \/ n < bad THEN jsonRoundTrip(values[n]).v ELSE values[n]]

SliceValues == {GoString(<<"x">>), GoString(<<"y">>), GoInt(1), GoChan}

InitAlias ==
    /\ rewrite \in BOOLEAN
    /\ \E f \in ConcFiles :
          /\ files = [p \in Paths |-> f]
          /\ testdata = (f # Absent)
    /\ s = [i \in Inst |-> NoSnapshotter]
    /\ reported = [i \in Inst |-> <<>>]
    /\ crashed = FALSE
    /\ call = NoCall
    /\ prov = [p \in Paths |-> NoProv]
    /\ derived = [i \in Inst |-> <<>>]
    /\ vpc = [i \in Inst |-> NoSteps]
    /\ \E v \in SliceValues : backing = [vals |-> <<v>>, refs |-> {}]

(* s.Snapshot(name, vals...) *)
SnapshotSpread(i, name) ==
    /\ ~crashed
    /\ s[i].alloc
    /\ Len(s[i].snapshots) < MaxSnapshots
    /\ \E written \in {roundtrippedInPlace(backing.vals)} :
       \E c \in {capture(writeThrough(s[i].snapshots, i, backing.refs, written),
                         name, backing.vals)} :
           /\ s' = [s EXCEPT ![i].snapshots = c.snapshots]
           /\ reported' = [reported EXCEPT ![i] = c.errs]
           /\ backing' = [vals |-> written,
                          refs |-> IF c.errs = <<>>
                                   THEN backing.refs \cup {<<i, Len(c.snapshots)>>}
                                   ELSE backing.refs]
           /\ call' = [NoCall EXCEPT !.op = "Snapshot", !.i = i, !.name = name,
                          !.values = backing.vals, !.before = s[i].snapshots,
                          !.out = Outcome(c.errs, Absent, FALSE, <<>>, c.evald, FALSE)]
    /\ UNCHANGED <<rewrite, testdata, files, crashed, prov, derived, vpc>>

(* vals[0] = v, a statement of the test between two calls *)
SliceWrite(v) ==
    /\ ~crashed
    /\ backing.vals # <<v>>
    /\ backing' = [backing EXCEPT !.vals = <<v>>]
    /\ s' = [i \in Inst |->
                [s[i] EXCEPT !.snapshots = writeThrough(@, i, backing.refs, <<v>>)]]
    /\ call' = [NoCall EXCEPT !.op = "write"]
    /\ UNCHANGED <<rewrite, testdata, files, reported, crashed, prov, derived, vpc>>

NextAlias ==
    \/ ConcNew(1, MainName)
    \/ \E c \in ConcCalls : Snapshot(1, c.name, c.values)
    \/ \E name \in {NameA, NameB} : SnapshotSpread(1, name)
    \/ \E v \in SliceValues : SliceWrite(v)
    \/ Verify(1, "none")

SpecAlias == InitAlias /\ [][NextAlias]_vars

----------------------------------------------------------------------------
(* The latest call, as the properties below read it *)
CompareCall == call.op = "Verify" /\ ~rewrite
RewriteCall == call.op = "Verify" /\ rewrite
Reported == reported[call.i]
Captured == call.before
NamesOf(entries) == [n \in 1..Len(entries) |-> entries[n].Name]

(* the golden file as the call found it, decoded *)
Expected == unmarshalSnapshots(call.fileBefore.doc)
Decoded == call.fileBefore.kind = "file" /\ call.io # "read" /\ ~Expected.err
NamesCompared ==
    CompareCall /\ Decoded /\ \A n \in 1..Len(Expected.v) : Expected.v[n] # NilPtr
NamesMatch == NamesCompared /\ NamesOf(Expected.v) = NamesOf(Captured)
ValueDiffers(n) == Expected.v[n].Values.e # Captured[n].Values.e

(* C1: rewrite-then-compare fixed point. When the golden file was left by  *)
(* a rewrite-mode Verify that met no failure, of a Snapshotter with the    *)
(* same test identifier and discriminator and the same captured entries,   *)
(* a compare-mode Verify that meets no I/O failure reports nothing and     *)
(* does not panic.                                                         *)
C1_RewriteThenCompare ==
    ( /\ CompareCall
      /\ call.io = "none"
      /\ call.provBefore = [by |-> "rewrite", t |-> s[call.i].t,
                            name |-> s[call.i].name, snapshots |-> Captured] )
    => (Reported = <<>> /\ ~crashed)

(* C2: fail-fast ordering. In compare mode with matching name sequences,   *)
(* when the entries i < j both differ in value from the golden file and i  *)
(* is the first that does, Verify reports the mismatch of entry i and the  *)
(* hint, nothing else, and evaluates no entry after i.                     *)
C2_FailFast ==
    NamesMatch =>
        \A i, j \in 1..Len(Captured) :
            ( /\ i < j
              /\ ValueDiffers(i)
              /\ ValueDiffers(j)
              /\ \A k \in 1..(i - 1) : ~ValueDiffers(k) )
            => /\ Len(Reported) = 2
               /\ Reported[1].m = "differs"
               /\ Reported[1].name = Captured[i].Name
               /\ Reported[2] = Hint
               /\ call.out.evald = [k \in 1..i |-> k]

(* C3: name-sequence sensitivity. In compare mode, when the name sequence  *)
(* decoded from the golden file differs from the captured one, Verify      *)
(* reports exactly one failure, "snapshot names differ", and compares no   *)
(* entry's values.                                                         *)
C3_NamesDiffer ==
    (NamesCompared /\ NamesOf(Expected.v) # NamesOf(Captured))
    => /\ Len(Reported) = 1
       /\ Reported[1].m = "namesDiffer"
       /\ call.out.evald = <<>>
       /\ ~crashed

(* the golden file holds the two captured entries in the other order *)
C3_Witness ==
    /\ NamesCompared
    /\ Len(Captured) = 2
    /\ Len(Expected.v) = 2
    /\ Captured[1].Name # Captured[2].Name
    /\ Deref(Expected.v[1]) = Captured[2]
    /\ Deref(Expected.v[2]) = Captured[1]
    /\ Len(Reported) = 1
    /\ Reported[1].m = "namesDiffer"

(* C4: a failing comparison includes the rewrite hint. A compare-mode      *)
(* Verify that reports a name-sequence mismatch or a value mismatch also   *)
(* reports the hint to rerun with -rewriteSnapshots.                       *)
C4_HintAlways ==
    ( /\ CompareCall
      /\ \E k \in 1..Len(Reported) : Reported[k].m \in {"namesDiffer", "differs"} )
    => \E k \in 1..Len(Reported) : Reported[k] = Hint

(* C5: no panic crosses the component boundary. Verify returns normally    *)
(* whatever the golden file holds.                                         *)
C5_NoPanic == call.op = "Verify" => ~call.out.panic

(* C6: for one test identifier, two Snapshotters constructed with          *)
(* different discriminators derive different golden-file paths in Verify.  *)
C6_DistinctPaths ==
    \A i, j \in Inst :
        ( /\ s[i].alloc /\ s[j].alloc
          /\ derived[i] # <<>> /\ derived[j] # <<>>
          /\ s[i].t = s[j].t
          /\ s[i].name # s[j].name )
        => derived[i] # derived[j]

(* C7: empty-set deletion. A rewrite-mode Verify with nothing captured     *)
(* never writes a file or creates the directory; when no removal fails     *)
(* no golden file is left and nothing is reported; when no file existed    *)
(* storage is as it was and nothing is reported.                           *)
C7_EmptyRewrite ==
    (RewriteCall /\ Len(Captured) = 0)
    => /\ \A k \in 1..Len(call.out.ops) : call.out.ops[k] \in {"stat", "remove"}
       /\ files[call.path] \in {Absent, call.fileBefore}
       /\ testdata = call.dirBefore
       /\ call.io = "none" => (files[call.path] = Absent /\ Reported = <<>>)
       /\ call.fileBefore = Absent => (files[call.path] = Absent /\ Reported = <<>>)
       /\ ~crashed

(* a golden file existed and the call removed it *)
C7_Witness ==
    /\ RewriteCall
    /\ Len(Captured) = 0
    /\ call.fileBefore.kind = "file"
    /\ call.io = "none"
    /\ files[call.path] = Absent
    /\ Reported = <<>>

C9_CompareReads ==
    CompareCall =>
        /\ (call.out.ops = <<"stat">>)
              <=> (call.fileBefore = Absent /\ Len(Captured) = 0)
        /\ call.out.ops = <<"stat">> => Reported = <<>>
        /\ (Len(Captured) > 0 /\ ~Decoded)
              => /\ Len(Reported) = 1
                 /\ Reported[1].m \in {"readFailed", "unmarshalFailed"}
                 /\ call.out.ops = <<"stat", "read">>
                 /\ call.out.evald = <<>>
                 /\ files[call.path] = call.fileBefore
                 /\ testdata = call.dirBefore
                 /\ ~crashed

(* entries were captured and there is no golden file *)
C9_Witness ==
    /\ CompareCall
    /\ Len(Captured) > 0
    /\ call.fileBefore = Absent
    /\ Len(Reported) = 1
    /\ Reported[1].m = "readFailed"
    /\ files[call.path] = Absent

(* C10: a rewrite-mode Verify with entries captured that meets no I/O      *)
(* failure reports nothing and leaves a golden file that decodes to        *)
(* exactly the captured entries, names and values, in capture order.       *)
C10_RewriteWrites ==
    (RewriteCall /\ Len(Captured) > 0 /\ call.io = "none")
    => /\ Reported = <<>>
       /\ files[call.path].kind = "file"
       /\ LET dec == unmarshalSnapshots(files[call.path].doc)
          IN  /\ ~dec.err
              /\ Len(dec.v) = Len(Captured)
              /\ \A n \in 1..Len(Captured) :
                    dec.v[n] # NilPtr /\ Deref(dec.v[n]) = Captured[n]

(* the entries of a compare run that hold one string on both sides, the    *)
(* entries the loop reached and the "differs" messages about an entry      *)
SingleStrings(n) ==
    /\ Len(Expected.v[n].Values.e) = 1
    /\ Len(Captured[n].Values.e) = 1
    /\ Expected.v[n].Values.e[1].k = "string"
    /\ Captured[n].Values.e[1].k = "string"
Evaluated(n) == \E k \in 1..Len(call.out.evald) : call.out.evald[k] = n
ReportsOf(n) ==
    {k \in 1..Len(Reported) : Reported[k].m = "differs" /\ Reported[k].entry = n}
RawLinesDiff(a, b) ==
    <<"--- expected", NL, "+++ received", NL>>
        \o diffLines("-", SplitLines(a)) \o diffLines("+", SplitLines(b))
StringCaseAt(n) ==
    LET r == ReportsOf(n)
        e == Expected.v[n].Values.e[1].s
        a == Captured[n].Values.e[1].s
    IN  /\ (r # {}) <=> (e # a)
        /\ Cardinality(r) <= 1
        /\ \A k \in r : /\ Reported[k].text = RawLinesDiff(e, a)
                        /\ k < Len(Reported)
                        /\ Reported[k + 1] = Hint

(* C11 as claimed: string special-case. In compare mode every entry that   *)
(* holds exactly one string on both sides is reported as a mismatch if and *)
(* only if the two strings are not equal, and then once, as the direct     *)
(* string diff followed by the hint.                                       *)
C11_StringCaseEveryEntry ==
    NamesMatch => \A n \in 1..Len(Captured) : SingleStrings(n) => StringCaseAt(n)

(* C11 amended: the same of every such entry that the loop reaches, which  *)
(* are the entries up to the first one whose two strings differ.           *)
C11_StringCase ==
    NamesMatch =>
        \A n \in 1..Len(Captured) :
            (Evaluated(n) /\ SingleStrings(n)) => StringCaseAt(n)

(* two entries of one string each, the first equal to the golden file's,   *)
(* the second of several lines and reported                                *)
C11_Witness ==
    /\ NamesMatch
    /\ Len(Captured) = 2
    /\ SingleStrings(1) /\ SingleStrings(2)
    /\ ReportsOf(1) = {}
    /\ ReportsOf(2) # {}
    /\ \E k \in 1..Len(Captured[2].Values.e[1].s) :
          Captured[2].Values.e[1].s[k] = NL

(* C12: round-trip idempotence of the normalizer. When the values of a     *)
(* captured entry, which are results of jsonRoundTrip, are handed to       *)
(* Snapshot again, every round trip succeeds and the entry appended holds  *)
(* the very same values.                                                   *)
C12_RoundTripIdempotent ==
    ( /\ call.op = "Snapshot"
      /\ Len(call.values) > 0
      /\ \E n \in 1..Len(Captured) : Captured[n].Values.e = call.values )
    => /\ Reported = <<>>
       /\ Len(s[call.i].snapshots) = Len(Captured) + 1
       /\ s[call.i].snapshots[Len(Captured) + 1].Values.e = call.values

(* a normalized value with a map in it went through the round trip again *)
C12_Witness ==
    /\ call.op = "Snapshot"
    /\ \E n \in 1..Len(Captured) : Captured[n].Values.e = call.values
    /\ Len(call.values) = 1
    /\ call.values[1].k \in {"map", "slice"}
    /\ Len(s[call.i].snapshots) = Len(Captured) + 1

(* what Verify does when the instance runs with nothing else going on *)
PathOf(i) == goldenPath(s[i].t, s[i].name)
Alone(i) ==
    IF rewrite
    THEN verifyRewrite(s[i].snapshots, vpc[i].start, FALSE, "none")
    ELSE verifyCompare(s[i].snapshots, vpc[i].start, FALSE, "none")

(* C13: concurrent executions on distinct derived paths are safe. When the *)
(* paths of the two Snapshotters differ, under every interleaving of their *)
(* calls and storage steps a finished Verify has reported what it reports  *)
(* when run alone, its golden file is what it leaves when run alone, and   *)
(* it has touched no file but its own.                                     *)
C13_DistinctPathsSafe ==
    \A i \in Inst :
        ( /\ vpc[i].pc = "done"
          /\ \A j \in Inst \ {i} : s[j].alloc => PathOf(j) # PathOf(i) )
        => /\ reported[i] = Alone(i).errs
           /\ files[PathOf(i)] = Alone(i).file
           /\ vpc[i].touched \subseteq {PathOf(i)}

(* both have finished, one rewrote its file and the other removed its own *)
C13_Witness ==
    /\ vpc[1].pc = "done" /\ vpc[2].pc = "done"
    /\ PathOf(1) # PathOf(2)
    /\ rewrite
    /\ Len(s[1].snapshots) = 2
    /\ Len(s[2].snapshots) = 0
    /\ files[PathOf(1)] = File(marshalSnapshots(s[1].snapshots))
    /\ vpc[2].start # Absent
    /\ files[PathOf(2)] = Absent

(* Verify has been called on the instance of the latest call since the     *)
(* instance was constructed                                                *)
Finalized == derived[call.i] # <<>>

(* C14: the Snapshotter is a two-state machine, Capturing then Finalized.  *)
(* Once Verify has been called on an instance, a later Snapshot call on it *)
(* is not accepted: it appends no entry to the captured entries.           *)
C14_NoSnapshotAfterVerify ==
    (call.op = "Snapshot" /\ Finalized) => s[call.i].snapshots = Captured

FailingOp(io) ==
    CASE io = "remove" -> "remove"
      [] io = "mkdir" -> "mkdir"
      [] io \in {"writeOpen", "writeShort"} -> "write"
      [] OTHER -> "none"
FailureReport(io) ==
    CASE io = "remove" -> "removeFailed"
      [] io = "mkdir" -> "mkdirFailed"
      [] io \in {"writeOpen", "writeShort"} -> "writeFailed"
      [] OTHER -> "none"

(* C16: in rewrite mode every storage failure is reported and aborts the   *)
(* call. A rewrite-mode Verify reports at most one failure; when removing, *)
(* creating the directory or writing fails it reports exactly one, of that *)
(* operation, the failing operation is the last one it performs and it     *)
(* returns normally; after a failure to create the directory no write is   *)
(* attempted and the golden file and the directory are as before.          *)
C16_RewriteFailures ==
    RewriteCall =>
        /\ Len(Reported) <= 1
        /\ ~crashed
        /\ call.io = "none" => Reported = <<>>
        /\ call.io # "none" =>
              /\ Len(Reported) = 1
              /\ Reported[1].m = FailureReport(call.io)
              /\ call.out.ops[Len(call.out.ops)] = FailingOp(call.io)
              /\ \A k \in 1..(Len(call.out.ops) - 1) :
                    call.out.ops[k] # FailingOp(call.io)
        /\ call.io = "mkdir" =>
              /\ \A k \in 1..Len(call.out.ops) : call.out.ops[k] # "write"
              /\ files[call.path] = call.fileBefore
              /\ testdata = call.dirBefore
        /\ call.io = "remove" => files[call.path] = call.fileBefore

(* the directory could not be created and an older golden file is kept *)
C16_Witness ==
    /\ RewriteCall
    /\ call.io = "mkdir"
    /\ Len(Captured) > 0
    /\ call.fileBefore.kind = "file"
    /\ call.fileBefore # File(marshalSnapshots(Captured))
    /\ files[call.path] = call.fileBefore
    /\ Len(Reported) = 1

IsPrefix(a, b) == Len(a) <= Len(b) /\ SubSeq(b, 1, Len(a)) = a

(* C17: captured entries are immutable and append-only. From one point of  *)
(* a test to the next the captured entries of an instance are a prefix of  *)
(* what they become, Verify leaves them as they are, and a compare-mode    *)
(* Verify right after a compare-mode Verify, with the golden file as it    *)
(* was, reports the same.                                                  *)
C17_AppendOnly ==
    [][ \A i \in Inst :
          (s[i].alloc /\ s'[i].alloc) =>
             /\ IsPrefix(s[i].snapshots, s'[i].snapshots)
             /\ call'.op = "Verify" => s'[i].snapshots = s[i].snapshots
             /\ ( /\ call.op = "Verify" /\ call'.op = "Verify"
                  /\ call.i = i /\ call'.i = i
                  /\ ~rewrite
                  /\ files' = files )
                => reported'[i] = reported[i] ]_vars

(* C18: compare-mode Verify is read-only on storage. Whatever was captured *)
(* and whatever the golden file holds, when the call succeeds, reports or  *)
(* panics, every file and the testdata directory are after the call what   *)
(* they were before it.                                                    *)
C18_CompareReadOnly ==
    [][ (call'.op = "Verify" /\ ~rewrite) =>
            /\ files' = files
            /\ testdata' = testdata ]_vars

(* a compare run that found no golden file for its entries, reported it    *)
(* and left the file missing and the directory uncreated                   *)
C18_Witness ==
    /\ CompareCall
    /\ Len(Captured) > 0
    /\ call.fileBefore = Absent
    /\ Len(Reported) = 1
    /\ Reported[1].m = "readFailed"
    /\ files[call.path] = Absent
    /\ ~testdata

====
